---- MODULE Spec2Model ----
(***************************************************************************)
(* A model of pyavatar's PyAvatar class (src/pyavatar/__init__.py): the    *)
(* validated constructor and property setters, change_color, and the      *)
(* three exports save, stream and base64_image.                            *)
(*                                                                         *)
(* Python values are records [type, val]; val is a sequence.  A str is the *)
(* sequence of its characters, each a one-character string ("U+00DF" names *)
(* the sharp s and "U+0060" the backtick), so that indexing, upper(),      *)
(* lower(), endswith(), os.path.splitext() and base64 are computed as      *)
(* Python computes them.  bytes are sequences of integers 0..255.          *)
(***************************************************************************)
EXTENDS Integers, Sequences, FiniteSets, TLC

----------------------------------------------------------------------------
(* Python values *)

PyStr(s) == [type |-> "str", val |-> s]
PyInt(i) == [type |-> "int", val |-> <<i>>]
\* True and False; bool is a subclass of int with the values 1 and 0
PyBool(b) == [type |-> "bool", val |-> <<b>>]
\* a float, given by its integer part and its first fractional digit
PyFloat(w, f) == [type |-> "float", val |-> <<w, f>>]
PyBytes(s) == [type |-> "bytes", val |-> s]
PyTuple(t) == [type |-> "tuple", val |-> t]
EmptyList == [type |-> "list", val |-> <<>>]
EmptyDict == [type |-> "dict", val |-> <<>>]
None == [type |-> "NoneType", val |-> <<>>]

\* isinstance(v, str)
IsStr(v) == v.type = "str"

\* isinstance(v, int): bool is a subclass of int
IsInt(v) == v.type \in {"int", "bool"}

\* the truth value of v, as ``v or default'' tests it
Truthy(v) ==
    CASE v.type = "NoneType" -> FALSE
      [] v.type \in {"int", "bool"} -> v.val[1] # 0
      [] v.type = "float" -> v.val # <<0, 0>>
      [] OTHER -> Len(v.val) > 0

----------------------------------------------------------------------------
(* str methods *)

UpperLetters ==
    <<"A", "B", "C", "D", "E", "F", "G", "H", "I", "J", "K", "L", "M",
      "N", "O", "P", "Q", "R", "S", "T", "U", "V", "W", "X", "Y", "Z">>

LowerLetters ==
    <<"a", "b", "c", "d", "e", "f", "g", "h", "i", "j", "k", "l", "m",
      "n", "o", "p", "q", "r", "s", "t", "u", "v", "w", "x", "y", "z">>

DigitChars == <<"0", "1", "2", "3", "4", "5", "6", "7", "8", "9">>

\* the place of the character c in the sequence s; 0 when it is not in it
IndexIn(s, c) ==
    IF \E i \in 1..Len(s) : s[i] = c THEN CHOOSE i \in 1..Len(s) : s[i] = c ELSE 0

\* the lowercase of each uppercase letter, and the uppercase of each
\* lowercase letter
ToLower == [c \in {UpperLetters[i] : i \in 1..26} |-> LowerLetters[IndexIn(UpperLetters, c)]]
ToUpper == [c \in {LowerLetters[i] : i \in 1..26} |-> UpperLetters[IndexIn(LowerLetters, c)]]

\* str.lower() of one character (the letters A-Z; the other characters
\* used here are their own lowercase)
LowerChar(c) == IF c \in DOMAIN ToLower THEN ToLower[c] ELSE c

Lower(s) == [i \in 1..Len(s) |-> LowerChar(s[i])]

\* str.upper() of one character: a string, since the uppercase of U+00DF
\* (sharp s) is the two letters "SS"
UpperChar(c) ==
    IF c \in DOMAIN ToUpper THEN <<ToUpper[c]>>
    ELSE IF c = "U+00DF" THEN <<"S", "S">>
    ELSE <<c>>

RECURSIVE Upper(_)
Upper(s) == IF s = <<>> THEN <<>> ELSE UpperChar(Head(s)) \o Upper(Tail(s))

\* s.endswith(suffix)
EndsWith(s, suffix) ==
    /\ Len(suffix) <= Len(s)
    /\ SubSeq(s, Len(s) - Len(suffix) + 1, Len(s)) = suffix

\* s.rfind(ch), 1-based; 0 when ch does not occur (Python's -1)
RFind(s, ch) ==
    LET hits == {i \in 1..Len(s) : s[i] = ch}
    IN IF hits = {} THEN 0 ELSE CHOOSE i \in hits : \A j \in hits : j <= i

\* sub in s
Contains(s, sub) ==
    \E i \in 0..(Len(s) - Len(sub)) : SubSeq(s, i + 1, i + Len(sub)) = sub

\* sep.join(items)
RECURSIVE Join(_, _)
Join(items, sep) ==
    IF items = <<>> THEN <<>>
    ELSE IF Len(items) = 1 THEN items[1]
    ELSE items[1] \o sep \o Join(Tail(items), sep)

\* str(n) of an integer
RECURSIVE Digits(_)
Digits(n) ==
    IF n < 10 THEN <<DigitChars[n + 1]>>
    ELSE Digits(n \div 10) \o <<DigitChars[(n % 10) + 1]>>

IntToStr(n) == IF n < 0 THEN <<"-">> \o Digits(0 - n) ELSE Digits(n)

\* "True"
TrueStr == <<"T", "r", "u", "e">>
\* "False"
FalseStr == <<"F", "a", "l", "s", "e">>
\* ", "
CommaSpace == <<",", " ">>

\* str(list) of a list of integers: "[50, 650]"
ReprIntList(l) ==
    <<"[">> \o Join([i \in 1..Len(l) |-> IntToStr(l[i])], CommaSpace) \o <<"]">>

\* format(v) as an f-string renders the values an exception carries
Format(v) ==
    CASE v.type = "str" -> v.val
      [] v.type = "int" -> IntToStr(v.val[1])
      [] v.type = "bool" -> IF v.val[1] = 1 THEN TrueStr ELSE FalseStr
      [] OTHER -> <<>>

----------------------------------------------------------------------------
(* os.path *)

Slash == "/"
Dot == "."

\* os.path.splitext(p): the extension starts at the last dot of the last
\* path component, leading dots of that component not counting
SplitExt(p) ==
    LET sepIndex == RFind(p, Slash)
        dotIndex == RFind(p, Dot)
    IN IF dotIndex > sepIndex
          /\ \E k \in (sepIndex + 1)..(dotIndex - 1) : p[k] # Dot
       THEN <<SubSeq(p, 1, dotIndex - 1), SubSeq(p, dotIndex, Len(p))>>
       ELSE <<p, <<>>>>

\* s.rstrip("/")
RECURSIVE RStripSlash(_)
RStripSlash(s) ==
    IF s # <<>> /\ s[Len(s)] = Slash THEN RStripSlash(SubSeq(s, 1, Len(s) - 1))
    ELSE s

\* os.path.dirname(p)
Dirname(p) ==
    LET head == SubSeq(p, 1, RFind(p, Slash))
    IN IF head # <<>> /\ \E k \in 1..Len(head) : head[k] # Slash
       THEN RStripSlash(head)
       ELSE head

\* os.path.basename(p)
Basename(p) == SubSeq(p, RFind(p, Slash) + 1, Len(p))

----------------------------------------------------------------------------
(* Constants of the library *)

\* "png"
PNG == <<"p", "n", "g">>
\* "jpeg"
JPEG == <<"j", "p", "e", "g">>
\* "ico"
ICO == <<"i", "c", "o">>
\* ".ttf"
TTF == <<".", "t", "t", "f">>
\* ".otf"
OTF == <<".", "o", "t", "f">>

\* ValidImgFormats.list
ValidImgFormats == <<PNG, JPEG, ICO>>

\* ValidFontFormats.list
ValidFontFormats == <<TTF, OTF>>

MIN == 50
MAX == 650

\* ValidPixelRange.list
ValidPixelRange == <<MIN, MAX>>

\* BaseValidators.csv
Csv(list) == Join(list, CommaSpace)

\* the members of a list
Members(list) == {list[i] : i \in 1..Len(list)}

\* "/p/Lora.ttf"
DEFAULT_FONTPATH == <<"/", "p", "/", "L", "o", "r", "a", ".", "t", "t", "f">>

----------------------------------------------------------------------------
(* Exceptions *)

NoError == [kind |-> "none", value |-> None, message |-> <<>>, info |-> <<>>]

\* PyAvatarError.__init__ of the subclass kind, whose docstring is doc:
\* message defaults to the docstring
PyAvatarError(kind, doc, value, message, info) ==
    [kind |-> kind, value |-> value,
     message |-> IF message = <<>> THEN doc ELSE message,
     info |-> info]

\* an exception of a Python builtin class, which carries its message only
BuiltinError(kind, message) ==
    [kind |-> kind, value |-> None, message |-> message, info |-> <<>>]

\* " -> "
Arrow == <<" ", "-", ">", " ">>

\* PyAvatarError.__str__
ErrorStr(e) == Format(e.value) \o Arrow \o e.message \o <<" ">> \o e.info

\* "Error with the chosen rendering size."
DocRenderingSize ==
    <<"E", "r", "r", "o", "r", " ", "w", "i", "t", "h", " ", "t", "h", "e",
      " ", "c", "h", "o", "s", "e", "n", " ", "r", "e", "n", "d", "e", "r",
      "i", "n", "g", " ", "s", "i", "z", "e", ".">>
\* "Cannot find a font file at this location."
DocFontpathError ==
    <<"C", "a", "n", "n", "o", "t", " ", "f", "i", "n", "d", " ", "a", " ",
      "f", "o", "n", "t", " ", "f", "i", "l", "e", " ", "a", "t", " ", "t",
      "h", "i", "s", " ", "l", "o", "c", "a", "t", "i", "o", "n", ".">>
\* "Font file extension not supported."
DocFontExtension ==
    <<"F", "o", "n", "t", " ", "f", "i", "l", "e", " ", "e", "x", "t", "e",
      "n", "s", "i", "o", "n", " ", "n", "o", "t", " ", "s", "u", "p", "p",
      "o", "r", "t", "e", "d", ".">>
\* "Avatar extension not supported."
DocAvatarExtension ==
    <<"A", "v", "a", "t", "a", "r", " ", "e", "x", "t", "e", "n", "s", "i",
      "o", "n", " ", "n", "o", "t", " ", "s", "u", "p", "p", "o", "r", "t",
      "e", "d", ".">>
\* "Attribute ``text`` needs to be an string."
MsgTextType ==
    <<"A", "t", "t", "r", "i", "b", "u", "t", "e", " ", "U+0060", "U+0060", "t", "e",
      "x", "t", "U+0060", "U+0060", " ", "n", "e", "e", "d", "s", " ", "t", "o", " ",
      "b", "e", " ", "a", "n", " ", "s", "t", "r", "i", "n", "g", ".">>
\* "Attribute ``size`` needs to be an integer."
MsgSizeType ==
    <<"A", "t", "t", "r", "i", "b", "u", "t", "e", " ", "U+0060", "U+0060", "s", "i",
      "z", "e", "U+0060", "U+0060", " ", "n", "e", "e", "d", "s", " ", "t", "o", " ",
      "b", "e", " ", "a", "n", " ", "i", "n", "t", "e", "g", "e", "r", ".">>
\* "Attribute ``fontpath`` needs to be a string."
MsgFontpathType ==
    <<"A", "t", "t", "r", "i", "b", "u", "t", "e", " ", "U+0060", "U+0060", "f", "o",
      "n", "t", "p", "a", "t", "h", "U+0060", "U+0060", " ", "n", "e", "e", "d", "s",
      " ", "t", "o", " ", "b", "e", " ", "a", " ", "s", "t", "r", "i", "n",
      "g", ".">>
\* "Rendering size must in range "
MsgSizeRange ==
    <<"R", "e", "n", "d", "e", "r", "i", "n", "g", " ", "s", "i", "z", "e",
      " ", "m", "u", "s", "t", " ", "i", "n", " ", "r", "a", "n", "g", "e",
      " ">>
\* "Supported formats: "
SupportedFormats ==
    <<"S", "u", "p", "p", "o", "r", "t", "e", "d", " ", "f", "o", "r", "m",
      "a", "t", "s", ":", " ">>
\* "string index out of range"
MsgIndex ==
    <<"s", "t", "r", "i", "n", "g", " ", "i", "n", "d", "e", "x", " ", "o",
      "u", "t", " ", "o", "f", " ", "r", "a", "n", "g", "e">>
\* "list index out of range"
MsgListIndex ==
    <<"l", "i", "s", "t", " ", "i", "n", "d", "e", "x", " ", "o", "u", "t",
      " ", "o", "f", " ", "r", "a", "n", "g", "e">>
\* "__init__() got an unexpected keyword argument 'capitalize'"
MsgKeyword ==
    <<"_", "_", "i", "n", "i", "t", "_", "_", "(", ")", " ", "g", "o", "t",
      " ", "a", "n", " ", "u", "n", "e", "x", "p", "e", "c", "t", "e", "d",
      " ", "k", "e", "y", "w", "o", "r", "d", " ", "a", "r", "g", "u", "m",
      "e", "n", "t", " ", "'", "c", "a", "p", "i", "t", "a", "l", "i", "z",
      "e", "'">>
\* "[Errno 2] No such file or directory: ''"
MsgNoSuchFile ==
    <<"[", "E", "r", "r", "n", "o", " ", "2", "]", " ", "N", "o", " ", "s",
      "u", "c", "h", " ", "f", "i", "l", "e", " ", "o", "r", " ", "d", "i",
      "r", "e", "c", "t", "o", "r", "y", ":", " ", "'", "'">>

RenderingSizeError(value, message) ==
    PyAvatarError("RenderingSizeError", DocRenderingSize, value, message, <<>>)

FontpathError(value) ==
    PyAvatarError("FontpathError", DocFontpathError, value, <<>>, <<>>)

FontExtensionNotSupportedError(value, info) ==
    PyAvatarError("FontExtensionNotSupportedError", DocFontExtension,
                  value, <<>>, info)

AvatarExtensionNotSupportedError(value, info) ==
    PyAvatarError("AvatarExtensionNotSupportedError", DocAvatarExtension,
                  value, <<>>, info)

----------------------------------------------------------------------------
(* The file system: the regular files and the directories that exist *)

\* os.path.exists(p)
Exists(fsys, p) == p \in fsys.files \/ p \in fsys.dirs

\* the directories os.makedirs(d) leaves existing: d and its ancestors
RECURSIVE Ancestors(_)
Ancestors(d) ==
    IF d = <<>> \/ \A k \in 1..Len(d) : d[k] = Slash THEN {}
    ELSE {d} \cup Ancestors(Dirname(d))

----------------------------------------------------------------------------
(* Property setters: the outcome of an assignment, an error or the value   *)
(* stored                                                                  *)

Raise(e) == [err |-> e, val |-> <<>>]
Store(v) == [err |-> NoError, val |-> v]

\* the text setter raising ValueError for a text that is not a string
SetTextValueError(t) ==
    IF ~IsStr(t) THEN Raise(BuiltinError("ValueError", MsgTextType))
    ELSE IF t.val = <<>> THEN Raise(BuiltinError("IndexError", MsgIndex))
    ELSE Store(Upper(<<t.val[1]>>))

\* PyAvatar.text setter
SetText(t) ==
    IF ~IsStr(t) THEN Raise(BuiltinError("TypeError", MsgTextType))
    ELSE IF t.val = <<>> THEN Raise(BuiltinError("IndexError", MsgIndex))
    ELSE Store(Upper(<<t.val[1]>>))

\* the size setter with the bounds themselves out of range
SetSizeExclusive(s) ==
    IF ~IsInt(s) THEN Raise(BuiltinError("TypeError", MsgSizeType))
    ELSE IF s.val[1] <= MIN \/ s.val[1] >= MAX
    THEN Raise(RenderingSizeError(s, MsgSizeRange \o ReprIntList(ValidPixelRange)))
    ELSE Store(<<s.val[1]>>)

\* PyAvatar.size setter
SetSize(s) ==
    IF ~IsInt(s) THEN Raise(BuiltinError("TypeError", MsgSizeType))
    ELSE IF s.val[1] < MIN \/ s.val[1] > MAX
    THEN Raise(RenderingSizeError(s, MsgSizeRange \o ReprIntList(ValidPixelRange)))
    ELSE Store(<<s.val[1]>>)

\* the font path setter comparing the extension as written
SetFontpathCaseSensitive(t, fsys) ==
    IF ~IsStr(t) THEN Raise(BuiltinError("TypeError", MsgFontpathType))
    ELSE IF ~Exists(fsys, t.val) THEN Raise(FontpathError(t))
    ELSE IF ~EndsWith(t.val, TTF) /\ ~EndsWith(t.val, OTF)
    THEN Raise(FontExtensionNotSupportedError(
                   PyStr(Basename(t.val)),
                   SupportedFormats \o Csv(ValidFontFormats)))
    ELSE Store(t.val)

\* PyAvatar.fontpath setter
SetFontpath(t, fsys) ==
    IF ~IsStr(t) THEN Raise(BuiltinError("TypeError", MsgFontpathType))
    ELSE IF ~Exists(fsys, t.val) THEN Raise(FontpathError(t))
    ELSE IF ~EndsWith(Lower(t.val), TTF) /\ ~EndsWith(Lower(t.val), OTF)
    THEN Raise(FontExtensionNotSupportedError(
                   PyStr(Basename(t.val)),
                   SupportedFormats \o Csv(ValidFontFormats)))
    ELSE Store(t.val)

----------------------------------------------------------------------------
(* Rendering *)

\* PyAvatar._random_color: the triples the model draws for the three calls
\* of random.randint(0, 255), with both ends of the range and the color of
\* the class's usage example
RandomColors ==
    {PyTuple(<<0, 0, 0>>), PyTuple(<<255, 255, 255>>), PyTuple(<<191, 91, 81>>)}

HexChars ==
    <<"0", "1", "2", "3", "4", "5", "6", "7", "8", "9", "a", "b", "c", "d", "e", "f">>

\* the value of a hexadecimal digit, of either case
HexDigit(c) == IndexIn(HexChars, LowerChar(c)) - 1

\* the RGB triple the imaging library fills the canvas with: an RGB tuple
\* as it is, "#rgb" and "#rrggbb" by their hexadecimal digits
GetRGB(c) ==
    IF c.type = "tuple" THEN c.val
    ELSE IF Len(c.val) = 4
    THEN [i \in 1..3 |-> 17 * HexDigit(c.val[i + 1])]
    ELSE [i \in 1..3 |-> (16 * HexDigit(c.val[2 * i])) + HexDigit(c.val[(2 * i) + 1])]

\* int(0.6 * size): the floating-point product truncates to 6 * size \div 10
\* for every size in MIN..MAX
FontSize(s) == (6 * s) \div 10

NoImage ==
    [width |-> 0, height |-> 0, background |-> <<>>, text |-> <<>>,
     fontpath |-> <<>>, fontsize |-> 0]

\* PyAvatar.__generate: a square RGB canvas filled with the color, with the
\* text drawn centered in the font at FontSize.  The canvas is given by what
\* determines its pixels.
Generate(t, s, f, c) ==
    [width |-> s, height |-> s, background |-> GetRGB(c), text |-> t,
     fontpath |-> f, fontsize |-> FontSize(s)]

----------------------------------------------------------------------------
(* Encoding *)

\* the bytes an encoded image of the format starts with
Signature(format) ==
    CASE Lower(format) = PNG -> <<137, 80, 78, 71>>
      [] Lower(format) = JPEG -> <<255, 216, 255>>
      [] OTHER -> <<0, 0, 1, 0>>

\* ord(c), for the characters the model uses
Ord(c) ==
    IF IndexIn(UpperLetters, c) > 0 THEN 64 + IndexIn(UpperLetters, c)
    ELSE IF IndexIn(LowerLetters, c) > 0 THEN 96 + IndexIn(LowerLetters, c)
    ELSE IF IndexIn(DigitChars, c) > 0 THEN 47 + IndexIn(DigitChars, c)
    ELSE IF c = "U+00DF" THEN 223
    ELSE IF c = "/" THEN 47
    ELSE 46

RECURSIVE Checksum(_)
Checksum(s) == IF s = <<>> THEN 0 ELSE (Ord(Head(s)) + Checksum(Tail(s))) % 256

\* Image.save(stream, format=...): the encoder is outside the library; it is
\* a function of the canvas and the format, here the format's signature
\* followed by the bytes of what determines the canvas
Encode(image, format) ==
    Signature(format)
    \o <<image.width \div 256, image.width % 256>>
    \o image.background
    \o [i \in 1..Len(image.text) |-> Ord(image.text[i]) % 256]
    \o <<image.fontsize \div 256, image.fontsize % 256, Checksum(image.fontpath)>>

\* "ABCDEFGHIJKLMNOPQRSTUVWXYZabcdefghijklmnopqrstuvwxyz0123456789+/"
B64Alphabet ==
    <<"A", "B", "C", "D", "E", "F", "G", "H", "I", "J", "K", "L", "M", "N",
      "O", "P", "Q", "R", "S", "T", "U", "V", "W", "X", "Y", "Z", "a", "b",
      "c", "d", "e", "f", "g", "h", "i", "j", "k", "l", "m", "n", "o", "p",
      "q", "r", "s", "t", "u", "v", "w", "x", "y", "z", "0", "1", "2", "3",
      "4", "5", "6", "7", "8", "9", "+", "/">>

\* base64.b64encode
RECURSIVE B64Encode(_)
B64Encode(b) ==
    IF b = <<>> THEN <<>>
    ELSE LET n == Len(b)
             b1 == b[1]
             b2 == IF n >= 2 THEN b[2] ELSE 0
             b3 == IF n >= 3 THEN b[3] ELSE 0
         IN <<B64Alphabet[(b1 \div 4) + 1],
              B64Alphabet[((b1 % 4) * 16) + (b2 \div 16) + 1],
              IF n >= 2 THEN B64Alphabet[((b2 % 16) * 4) + (b3 \div 64) + 1] ELSE "=",
              IF n >= 3 THEN B64Alphabet[(b3 % 64) + 1] ELSE "=">>
            \o B64Encode(SubSeq(b, 4, n))

\* the value of a base64 digit
B64Value(c) == IndexIn(B64Alphabet, c) - 1

\* base64.b64decode of a padded payload
RECURSIVE B64Decode(_)
B64Decode(s) ==
    IF Len(s) < 4 THEN <<>>
    ELSE LET v1 == B64Value(s[1])
             v2 == B64Value(s[2])
             v3 == IF s[3] = "=" THEN 0 ELSE B64Value(s[3])
             v4 == IF s[4] = "=" THEN 0 ELSE B64Value(s[4])
         IN <<(v1 * 4) + (v2 \div 16)>>
            \o (IF s[3] = "=" THEN <<>> ELSE <<((v2 % 16) * 16) + (v3 \div 4)>>)
            \o (IF s[4] = "=" THEN <<>> ELSE <<((v3 % 4) * 64) + v4>>)
            \o B64Decode(SubSeq(s, 5, Len(s)))

----------------------------------------------------------------------------
(* Exports: the outcome of a call on an avatar with the canvas image *)

\* s.split("."): the pieces of s between its dots
RECURSIVE SplitDot(_)
SplitDot(s) ==
    IF \A k \in 1..Len(s) : s[k] # Dot THEN <<s>>
    ELSE LET k == CHOOSE i \in 1..Len(s) :
                      s[i] = Dot /\ \A j \in 1..(i - 1) : s[j] # Dot
         IN <<SubSeq(s, 1, k - 1)>> \o SplitDot(SubSeq(s, k + 1, Len(s)))

\* PyAvatar.save: the error raised, and the file system it leaves
SaveResult(image, filepath, fsys) ==
    LET pieces == SplitDot(SplitExt(filepath)[2])
        directory == Dirname(filepath)
    IN IF Len(pieces) < 2
       THEN [err |-> BuiltinError("IndexError", MsgListIndex), fs |-> fsys]
       ELSE IF pieces[2] \notin Members(ValidImgFormats)
       THEN [err |-> AvatarExtensionNotSupportedError(
                         PyStr(Basename(filepath)),
                         SupportedFormats \o Csv(ValidImgFormats)),
             fs |-> fsys]
       ELSE IF ~Exists(fsys, directory) /\ directory = <<>>
       THEN [err |-> BuiltinError("FileNotFoundError", MsgNoSuchFile), fs |-> fsys]
       ELSE [err |-> NoError,
             fs |-> [files |-> fsys.files \cup {filepath},
                     dirs |-> IF Exists(fsys, directory) THEN fsys.dirs
                              ELSE fsys.dirs \cup Ancestors(directory)]]

\* stream comparing the filetype as written
StreamResultCaseSensitive(image, filetype) ==
    IF filetype \notin Members(ValidImgFormats)
    THEN Raise(AvatarExtensionNotSupportedError(
                   PyStr(filetype), SupportedFormats \o Csv(ValidImgFormats)))
    ELSE Store(Encode(image, filetype))

\* PyAvatar.stream: the error raised or the bytes returned
StreamResult(image, filetype) ==
    IF Lower(filetype) \notin Members(ValidImgFormats)
    THEN Raise(AvatarExtensionNotSupportedError(
                   PyStr(filetype), SupportedFormats \o Csv(ValidImgFormats)))
    ELSE Store(Encode(image, filetype))

\* "data:image/"
DataImage == <<"d", "a", "t", "a", ":", "i", "m", "a", "g", "e", "/">>
\* ";base64,"
Base64Comma == <<";", "b", "a", "s", "e", "6", "4", ",">>

\* base64_image naming png in the data URI whatever the filetype
Base64ImageResultPng(image, filetype) ==
    LET s == StreamResult(image, filetype)
    IN IF s.err # NoError THEN s
       ELSE Store(DataImage \o PNG \o Base64Comma \o B64Encode(s.val))

\* PyAvatar.base64_image: the error raised or the data URI returned
Base64ImageResult(image, filetype) ==
    LET s == StreamResult(image, filetype)
    IN IF s.err # NoError THEN s
       ELSE Store(DataImage \o filetype \o Base64Comma \o B64Encode(s.val))

----------------------------------------------------------------------------
(* The values the calls are made with *)

\* "smallwat3r"
smallwat3r == <<"s", "m", "a", "l", "l", "w", "a", "t", "3", "r">>
\* "Smallwat3r"
Smallwat3r == <<"S", "m", "a", "l", "l", "w", "a", "t", "3", "r">>
\* "ßeta"
eszett == <<"U+00DF", "e", "t", "a">>
\* "hello"
hello == <<"h", "e", "l", "l", "o">>
\* "no.ttf"
idonotexist == <<"n", "o", ".", "t", "t", "f">>
\* "/p/test.py"
testfile == <<"/", "p", "/", "t", "e", "s", "t", ".", "p", "y">>
\* "/p/B.OTF"
upperfont == <<"/", "p", "/", "B", ".", "O", "T", "F">>
\* "#999"
hex999 == <<"#", "9", "9", "9">>
\* "unknown"
unknown == <<"u", "n", "k", "n", "o", "w", "n">>
\* "PNG"
PNGupper == <<"P", "N", "G">>
\* "/t/n/a.png"
p_new == <<"/", "t", "/", "n", "/", "a", ".", "p", "n", "g">>
\* "/t/a.nope"
p_nope == <<"/", "t", "/", "a", ".", "n", "o", "p", "e">>
\* "/t/a.PNG"
p_upper == <<"/", "t", "/", "a", ".", "P", "N", "G">>
\* "a.png"
p_bare == <<"a", ".", "p", "n", "g">>
\* "/t/a"
p_noext == <<"/", "t", "/", "a">>

Texts ==
    {PyStr(smallwat3r), PyStr(Smallwat3r), PyStr(eszett), PyStr(<<>>),
     PyInt(123), PyBytes(<<104, 101, 108, 108, 111>>), EmptyList, EmptyDict}

Sizes ==
    {PyInt(0 - 1), PyInt(0), PyInt(MIN - 1), PyInt(MIN), PyInt(MAX),
     PyInt(MAX + 1), PyStr(hello), PyFloat(120, 5), PyBool(1), EmptyList}

Fontpaths ==
    {PyStr(DEFAULT_FONTPATH), PyStr(upperfont), PyStr(idonotexist),
     PyStr(testfile), PyInt(123)}

\* colors passed to the constructor and to change_color; None is the
\* default of the parameter
Colors ==
    {None, PyStr(<<>>), PyStr(hex999), PyTuple(<<9, 9, 9>>), PyTuple(<<0, 0, 0>>)}

\* the values assigned or passed after construction
AssignedTexts == {PyStr(smallwat3r), PyStr(eszett), PyInt(123)}
AssignedSizes == {PyInt(MIN), PyInt(MAX), PyInt(MAX + 1), PyStr(hello)}
AssignedFontpaths == {PyStr(DEFAULT_FONTPATH), PyStr(upperfont), PyStr(idonotexist)}
AssignedColors == {PyTuple(<<9, 9, 9>>)}
ChangedColors == {None, PyStr(hex999), PyTuple(<<0, 0, 0>>)}

Filepaths == {p_new, p_nope, p_upper, p_bare, p_noext}

Filetypes == {PNG, JPEG, ICO, PNGupper, unknown}

\* the file system the program starts in
InitialFs ==
    [files |-> {DEFAULT_FONTPATH, upperfont, testfile},
     dirs |-> Ancestors(Dirname(DEFAULT_FONTPATH)) \cup Ancestors(Dirname(upperfont))
              \cup Ancestors(Dirname(testfile)) \cup Ancestors(Dirname(p_nope))]

----------------------------------------------------------------------------
(* State *)

VARIABLES
    constructed,   \* whether the last constructor call returned an avatar
    _text,         \* PyAvatar._text
    _size,         \* PyAvatar._size
    _fontpath,     \* PyAvatar._fontpath
    color,         \* PyAvatar.color
    img,           \* PyAvatar.img, the canvas
    fs,            \* the file system
    call           \* the last call: its name, arguments, error and result

avatar == <<constructed, _text, _size, _fontpath, color, img>>
vars == <<constructed, _text, _size, _fontpath, color, img, fs, call>>

Call(op, args, err, ret, rand) ==
    [op |-> op, args |-> args, err |-> err, ret |-> ret, rand |-> rand]

Init ==
    /\ constructed = FALSE
    /\ _text = <<>>
    /\ _size = 0
    /\ _fontpath = <<>>
    /\ color = None
    /\ img = NoImage
    /\ fs = InitialFs
    /\ call = Call("none", <<>>, NoError, <<>>, None)

\* the constructor raised: no avatar is returned
NoAvatar(args, e) ==
    /\ constructed' = FALSE
    /\ _text' = <<>>
    /\ _size' = 0
    /\ _fontpath' = <<>>
    /\ color' = None
    /\ img' = NoImage
    /\ call' = Call("__init__", args, e, <<>>, None)

\* the color taken for false when all its channels are zero
ColorOrRandomNonZero(c, rand) ==
    IF Truthy(c) /\ ~(c.type = "tuple" /\ \A i \in 1..Len(c.val) : c.val[i] = 0)
    THEN c
    ELSE IF rand = None THEN PyTuple(<<255, 255, 255>>) ELSE rand

\* color or self._random_color(): the random color is drawn only when the
\* color given is false
ColorOrRandom(c, rand) == IF Truthy(c) THEN c ELSE rand

RandomDraws(c) == IF Truthy(c) THEN {None} ELSE RandomColors

\* PyAvatar(text, size, fontpath, color)
PyAvatarInit(t, s, f, c) ==
    LET args == <<t, s, f, c>>
        rt == SetText(t)
        rs == SetSize(s)
        rf == SetFontpath(f, fs)
    IN /\ call.op = "none"
       /\ UNCHANGED fs
       /\ IF rt.err # NoError THEN NoAvatar(args, rt.err)
          ELSE IF rs.err # NoError THEN NoAvatar(args, rs.err)
          ELSE IF rf.err # NoError THEN NoAvatar(args, rf.err)
          ELSE \E rand \in RandomDraws(c) :
                  /\ constructed' = TRUE
                  /\ _text' = rt.val
                  /\ _size' = rs.val[1]
                  /\ _fontpath' = rf.val
                  /\ color' = ColorOrRandom(c, rand)
                  /\ img' = Generate(rt.val, rs.val[1], rf.val, ColorOrRandom(c, rand))
                  /\ call' = Call("__init__", args, NoError, <<>>, rand)

\* PyAvatar(text, capitalize=cap): __init__ takes no such keyword, so the
\* call raises TypeError before the body runs
PyAvatarInitCapitalize(t, cap) ==
    /\ call.op = "none"
    /\ UNCHANGED fs
    /\ constructed' = FALSE
    /\ _text' = <<>>
    /\ _size' = 0
    /\ _fontpath' = <<>>
    /\ color' = None
    /\ img' = NoImage
    /\ call' = Call("__init__capitalize", <<t, cap>>,
                    BuiltinError("TypeError", MsgKeyword), <<>>, None)

\* change_color redrawing the avatar at the smallest size
ChangeColorResetSize(c) ==
    /\ constructed
    /\ \E rand \in RandomDraws(c) :
          /\ color' = ColorOrRandom(c, rand)
          /\ img' = Generate(_text, MIN, _fontpath, ColorOrRandom(c, rand))
          /\ call' = Call("change_color", <<c>>, NoError, <<>>, rand)
    /\ _size' = MIN
    /\ UNCHANGED <<constructed, _text, _fontpath, fs>>

\* avatar.change_color(c)
ChangeColor(c) ==
    /\ constructed
    /\ \E rand \in RandomDraws(c) :
          /\ color' = ColorOrRandom(c, rand)
          /\ img' = Generate(_text, _size, _fontpath, ColorOrRandom(c, rand))
          /\ call' = Call("change_color", <<c>>, NoError, <<>>, rand)
    /\ UNCHANGED <<constructed, _text, _size, _fontpath, fs>>

\* avatar.text = t
AssignText(t) ==
    LET r == SetText(t)
    IN /\ constructed
       /\ _text' = IF r.err = NoError THEN r.val ELSE _text
       /\ call' = Call("text", <<t>>, r.err, <<>>, None)
       /\ UNCHANGED <<constructed, _size, _fontpath, color, img, fs>>

\* avatar.size = s
AssignSize(s) ==
    LET r == SetSize(s)
    IN /\ constructed
       /\ _size' = IF r.err = NoError THEN r.val[1] ELSE _size
       /\ call' = Call("size", <<s>>, r.err, <<>>, None)
       /\ UNCHANGED <<constructed, _text, _fontpath, color, img, fs>>

\* avatar.fontpath = f
AssignFontpath(f) ==
    LET r == SetFontpath(f, fs)
    IN /\ constructed
       /\ _fontpath' = IF r.err = NoError THEN r.val ELSE _fontpath
       /\ call' = Call("fontpath", <<f>>, r.err, <<>>, None)
       /\ UNCHANGED <<constructed, _text, _size, color, img, fs>>

\* avatar.color = c: a plain attribute
AssignColor(c) ==
    /\ constructed
    /\ color' = c
    /\ call' = Call("color", <<c>>, NoError, <<>>, None)
    /\ UNCHANGED <<constructed, _text, _size, _fontpath, img, fs>>

\* avatar.save(filepath)
Save(filepath) ==
    LET r == SaveResult(img, filepath, fs)
    IN /\ constructed
       /\ fs' = r.fs
       /\ call' = Call("save", <<PyStr(filepath)>>, r.err, <<>>, None)
       /\ UNCHANGED avatar

\* avatar.stream(filetype)
Stream(filetype) ==
    LET r == StreamResult(img, filetype)
    IN /\ constructed
       /\ call' = Call("stream", <<PyStr(filetype)>>, r.err, r.val, None)
       /\ UNCHANGED <<avatar, fs>>

\* avatar.base64_image(filetype)
Base64Image(filetype) ==
    LET r == Base64ImageResult(img, filetype)
    IN /\ constructed
       /\ call' = Call("base64_image", <<PyStr(filetype)>>, r.err, r.val, None)
       /\ UNCHANGED <<avatar, fs>>

Next ==
    \/ \E t \in Texts, cap \in {PyBool(0), PyBool(1)} : PyAvatarInitCapitalize(t, cap)
    \/ \E t \in Texts, s \in Sizes, f \in Fontpaths, c \in Colors :
          PyAvatarInit(t, s, f, c)
    \/ \E c \in ChangedColors : ChangeColor(c)
    \/ \E t \in AssignedTexts : AssignText(t)
    \/ \E s \in AssignedSizes : AssignSize(s)
    \/ \E f \in AssignedFontpaths : AssignFontpath(f)
    \/ \E c \in AssignedColors : AssignColor(c)
    \/ \E p \in Filepaths : Save(p)
    \/ \E ft \in Filetypes : Stream(ft)
    \/ \E ft \in Filetypes : Base64Image(ft)

Spec == Init /\ [][Next]_vars

----------------------------------------------------------------------------
(* Properties *)

\* what the arguments of the last constructor call are
ArgText == call.args[1]
ArgSize == call.args[2]
ArgFontpath == call.args[3]
ArgColor == call.args[4]

\* a text, a size and a font path that pass validation
ValidTextArg(t) == t.type = "str" /\ Len(t.val) >= 1
ValidSizeArg(s) == s.type \in {"int", "bool"} /\ s.val[1] >= 50 /\ s.val[1] <= 650
SupportedFontName(p) ==
    \E e \in {TTF, OTF} : EndsWith(Lower(p), e)
ValidFontpathArg(f) ==
    f.type = "str" /\ f.val \in fs.files /\ SupportedFontName(f.val)

Init_Called == call.op = "__init__"

(* C1: with a valid text and font, a construction with an integer size     *)
(* succeeds with avatar.size = size exactly when 50 <= size <= 650; for    *)
(* every other integer size it fails with RenderingSizeError, the error    *)
(* text holding the offending value and both bounds, and no avatar is      *)
(* produced.                                                               *)
C1_SizeRange ==
    (/\ Init_Called
     /\ ValidTextArg(ArgText)
     /\ ValidFontpathArg(ArgFontpath)
     /\ ArgSize.type \in {"int", "bool"})
    => IF ArgSize.val[1] >= 50 /\ ArgSize.val[1] <= 650
       THEN /\ constructed
            /\ call.err = NoError
            /\ _size = ArgSize.val[1]
       ELSE /\ ~constructed
            /\ call.err.kind = "RenderingSizeError"
            /\ call.err.value = ArgSize
            /\ Contains(ErrorStr(call.err), Format(ArgSize))
            /\ Contains(ErrorStr(call.err), IntToStr(50))
            /\ Contains(ErrorStr(call.err), IntToStr(650))

C1_Witness ==
    /\ Init_Called
    /\ ValidTextArg(ArgText)
    /\ ValidFontpathArg(ArgFontpath)
    /\ ArgSize = PyInt(651)
    /\ call.err.kind = "RenderingSizeError"
    /\ ~constructed

(* C2 as stated: a construction fails with TypeError, and produces no      *)
(* avatar, whenever text is not a string, whenever size is not an integer  *)
(* and whenever the font path is not a string.                             *)
C2_Original ==
    (/\ Init_Called
     /\ \/ ~(ArgText.type = "str")
        \/ ~(ArgSize.type \in {"int", "bool"})
        \/ ~(ArgFontpath.type = "str"))
    => /\ ~constructed
       /\ call.err.kind = "TypeError"

(* C2 amended: a construction with a text that is not a string, a size     *)
(* that is not an int or a font path that is not a string always fails and *)
(* produces no avatar.  The arguments are validated in the order text,     *)
(* size, font path and the first failure is the error raised: TypeError    *)
(* for a text that is not a string; for a size that is not an int when the *)
(* text is a non-empty string; for a font path that is not a string when   *)
(* the text is a non-empty string and the size an int in range.  An empty  *)
(* text raises IndexError and an out-of-range size RenderingSizeError      *)
(* before a later argument's type is looked at.                            *)
C2_TypeErrors ==
    Init_Called =>
      /\ (\/ ~(ArgText.type = "str")
          \/ ~(ArgSize.type \in {"int", "bool"})
          \/ ~(ArgFontpath.type = "str"))
         => (~constructed /\ call.err # NoError)
      /\ ~(ArgText.type = "str")
         => (call.err.kind = "TypeError" /\ call.err.message = MsgTextType)
      /\ (ArgText.type = "str" /\ ArgText.val = <<>>)
         => call.err.kind = "IndexError"
      /\ (ValidTextArg(ArgText) /\ ~(ArgSize.type \in {"int", "bool"}))
         => (call.err.kind = "TypeError" /\ call.err.message = MsgSizeType)
      /\ (/\ ValidTextArg(ArgText)
          /\ ArgSize.type \in {"int", "bool"}
          /\ ~ValidSizeArg(ArgSize))
         => call.err.kind = "RenderingSizeError"
      /\ (/\ ValidTextArg(ArgText)
          /\ ValidSizeArg(ArgSize)
          /\ ~(ArgFontpath.type = "str"))
         => (call.err.kind = "TypeError" /\ call.err.message = MsgFontpathType)

C2_Witness ==
    /\ Init_Called
    /\ ValidTextArg(ArgText)
    /\ ValidSizeArg(ArgSize)
    /\ ArgFontpath = PyInt(123)
    /\ call.err.kind = "TypeError"
    /\ ~constructed

\* what the font path setter does with the string font path f, in a call
\* whose error is e
FontpathOutcome(f, e) ==
    /\ ~Exists(fs, f.val)
       => (e.kind = "FontpathError" /\ e.value = f)
    /\ (Exists(fs, f.val) /\ ~SupportedFontName(f.val))
       => /\ e.kind = "FontExtensionNotSupportedError"
          /\ Contains(ErrorStr(e), TTF)
          /\ Contains(ErrorStr(e), OTF)
    /\ (Exists(fs, f.val) /\ SupportedFontName(f.val))
       => (e = NoError /\ _fontpath = f.val)

(* C3 as stated: for every string font path a construction fails with      *)
(* FontpathError when the path does not exist, with                        *)
(* FontExtensionNotSupportedError (listing the supported extensions) when  *)
(* it exists without ending in .ttf or .otf, and otherwise accepts the     *)
(* path and stores it unchanged.                                           *)
C3_Original ==
    (Init_Called /\ ArgFontpath.type = "str")
    => FontpathOutcome(ArgFontpath, call.err)

(* C3 amended: the same, for a construction whose text and size pass       *)
(* validation (they are validated before the font path, and their error    *)
(* is the one raised), and for every assignment of a string to             *)
(* avatar.fontpath; and no construction succeeds with a font path that     *)
(* does not exist or has no supported extension.                           *)
C3_FontpathErrors ==
    /\ (/\ Init_Called
        /\ ValidTextArg(ArgText)
        /\ ValidSizeArg(ArgSize)
        /\ ArgFontpath.type = "str")
       => FontpathOutcome(ArgFontpath, call.err)
    /\ (call.op = "fontpath" /\ call.args[1].type = "str")
       => FontpathOutcome(call.args[1], call.err)
    /\ (Init_Called /\ constructed)
       => /\ ValidFontpathArg(ArgFontpath)
          /\ _fontpath = ArgFontpath.val

C3_Witness ==
    /\ Init_Called
    /\ ValidTextArg(ArgText)
    /\ ValidSizeArg(ArgSize)
    /\ ArgFontpath = PyStr(idonotexist)
    /\ call.err.kind = "FontpathError"
    /\ ~constructed

(* C4: after a construction from the string t, avatar.text is exactly one  *)
(* character: the first character of t in uppercase when capitalize is     *)
(* true or not given, and the first character of t as given when           *)
(* capitalize is false.                                                    *)
C4_Claim ==
    /\ (Init_Called /\ constructed)
       => /\ Len(_text) = 1
          /\ _text = Upper(<<ArgText.val[1]>>)
    /\ (call.op = "__init__capitalize" /\ ValidTextArg(call.args[1]))
       => /\ constructed
          /\ Len(_text) = 1
          /\ _text = IF call.args[2] = PyBool(1)
                     THEN Upper(<<call.args[1].val[1]>>)
                     ELSE <<call.args[1].val[1]>>

\* a hex string "#rgb" or "#rrggbb", or a triple of channels in 0..255
IsColorValue(c) ==
    \/ /\ c.type = "str"
       /\ Len(c.val) \in {4, 7}
       /\ c.val[1] = "#"
    \/ /\ c.type = "tuple"
       /\ Len(c.val) = 3
       /\ \A i \in 1..3 : c.val[i] \in 0..255

\* the color passed to the last call, a construction that returned an
\* avatar or a change_color
ColorCalled ==
    \/ Init_Called /\ constructed
    \/ call.op = "change_color"

PassedColor == IF Init_Called THEN ArgColor ELSE call.args[1]

(* C5: a color passed to the constructor or to change_color, a hex string  *)
(* or an RGB triple, is the avatar's color afterwards, and no random color *)
(* is drawn for it; a random color is drawn only when the call passes no   *)
(* color, and it is then an RGB triple of channels in 0..255 and the       *)
(* avatar's color.                                                         *)
C5_ExplicitColorKept ==
    ColorCalled =>
      /\ IsColorValue(PassedColor) => (color = PassedColor /\ call.rand = None)
      /\ call.rand # None
         => /\ ~IsColorValue(PassedColor)
            /\ color = call.rand
            /\ call.rand.type = "tuple"
            /\ Len(call.rand.val) = 3
            /\ \A i \in 1..3 : call.rand.val[i] \in 0..255

C5_Witness ==
    /\ call.op = "change_color"
    /\ call.args[1] = PyTuple(<<0, 0, 0>>)
    /\ color = PyTuple(<<0, 0, 0>>)
    /\ call.rand = None

(* C6: a call of change_color, with or without a color, leaves the text,   *)
(* the size and the font path of the avatar as they were.                  *)
C6_ChangeColorFrame ==
    [][call'.op = "change_color" => UNCHANGED <<_text, _size, _fontpath>>]_vars

\* change_color has drawn a random color and redrawn a canvas that the
\* assignments before it had left behind
C6_Witness ==
    /\ call.op = "change_color"
    /\ call.rand # None
    /\ img.width = 650
    /\ img.text = <<"S", "S">>
    /\ img.fontpath = upperfont

\* the extension of the path p as the claims give it: what
\* os.path.splitext splits off, without its dot and in lowercase
LowerExtension(p) ==
    LET ext == SplitExt(p)[2]
    IN IF ext = <<>> THEN <<>> ELSE Lower(Tail(ext))

(* C7: save(filepath) writes a file at filepath, creating the missing      *)
(* parent directories, whenever the extension of filepath, without its dot *)
(* and compared case-insensitively, is png, jpeg or ico; for every other   *)
(* filepath it fails with AvatarExtensionNotSupportedError reporting the   *)
(* supported formats and leaves the file system as it was.                 *)
C7_Claim ==
    [][call'.op = "save" =>
         LET p == call'.args[1].val
         IN IF LowerExtension(p) \in {PNG, JPEG, ICO}
            THEN /\ call'.err = NoError
                 /\ fs'.files = fs.files \cup {p}
                 /\ Dirname(p) \in fs'.dirs
            ELSE /\ call'.err.kind = "AvatarExtensionNotSupportedError"
                 /\ Contains(ErrorStr(call'.err), Csv(<<PNG, JPEG, ICO>>))
                 /\ fs' = fs]_vars

(* C8: stream(filetype) fails with AvatarExtensionNotSupportedError for    *)
(* every filetype that is not png, jpeg or ico, compared                   *)
(* case-insensitively, and otherwise returns the encoding of the current   *)
(* canvas in that format; it changes no field of the avatar and no file,   *)
(* and a second call with the same filetype returns the same bytes.        *)
C8_Stream ==
    [][call'.op = "stream" =>
         LET ft == call'.args[1].val
         IN /\ UNCHANGED <<constructed, _text, _size, _fontpath, color, img, fs>>
            /\ IF Lower(ft) \in {PNG, JPEG, ICO}
               THEN /\ call'.err = NoError
                    /\ call'.ret = Encode(img, ft)
                    /\ Len(call'.ret) > 0
               ELSE /\ call'.err.kind = "AvatarExtensionNotSupportedError"
                    /\ call'.ret = <<>>
            /\ (call.op = "stream" /\ call.args = call'.args)
               => (call'.ret = call.ret /\ call'.err = call.err)]_vars

C8_Witness ==
    /\ call.op = "stream"
    /\ call.args[1] = PyStr(PNGupper)
    /\ call.err = NoError
    /\ call.ret = Encode(img, PNG)

\* whether s starts with prefix
StartsWith(s, prefix) ==
    Len(prefix) <= Len(s) /\ SubSeq(s, 1, Len(prefix)) = prefix

(* C9: base64_image(filetype) fails exactly when stream(filetype) fails,   *)
(* with the same error; otherwise it returns "data:image/<filetype>;       *)
(* base64," followed by a base64 payload that decodes to the bytes         *)
(* stream(filetype) returns in the same state.                             *)
C9_Base64Image ==
    call.op = "base64_image" =>
      LET ft == call.args[1].val
          s == StreamResult(img, ft)
          prefix == DataImage \o ft \o Base64Comma
      IN /\ call.err = s.err
         /\ (s.err # NoError) = (Lower(ft) \notin {PNG, JPEG, ICO})
         /\ s.err = NoError
            => /\ StartsWith(call.ret, prefix)
               /\ B64Decode(SubSeq(call.ret, Len(prefix) + 1, Len(call.ret))) = s.val

C9_Witness ==
    /\ call.op = "base64_image"
    /\ call.args[1] = PyStr(JPEG)
    /\ call.err = NoError
    /\ StartsWith(call.ret, DataImage \o JPEG \o Base64Comma)
    /\ Len(call.ret) > Len(DataImage \o JPEG \o Base64Comma)

(* C10: in every state after a successful construction the canvas is the   *)
(* render of the avatar's current text, size, font path and color.         *)
C10_Claim ==
    constructed => img = Generate(_text, _size, _fontpath, color)

====
